---- MODULE Spec2Model ----
(***************************************************************************)
(* Model of filters/filter_by_property_terms.py: the synonym expansion of  *)
(* requested property terms, the sentence segmenter, the (polymer,         *)
(* property, value) triple detector, and the corpus filter with its CLI.   *)
(* Python strings are sequences of one-character strings, so that lower(), *)
(* strip() and the regular expressions are computed character by           *)
(* character.                                                              *)
(***************************************************************************)
EXTENDS Integers, Sequences, FiniteSets, TLC

VARIABLES
    \* ---- expander harness (_build_property_search_terms) ----
    synonyms_data,   \* ordered dict category -> {canonical: syn_list}
    requested,       \* list of requested terms
    search_terms,    \* result of the expansion
    re_expanded,     \* expansion of the members of search_terms
    expand_pc,       \* "idle", "input", "expanded", "reexpanded"
    \* ---- detector harness (_has_valid_triple) ----
    tokens,          \* the pieces the sentence is put together from
    detect_terms,    \* property_terms handed to the detector
    qualifies,       \* what _has_valid_triple returned
    detect_pc,       \* "idle", "build", "done"
    \* ---- segmenter harness (_split_into_sentences) ----
    pieces,          \* the pieces the text is put together from
    sentences,       \* what _split_into_sentences returned
    segment_pc,      \* "idle", "build", "done"
    \* ---- the command line run: main() and filter_papers() ----
    folder_exists,   \* whether the corpus folder exists
    corpus,          \* the folder: file name -> what the parser does with it
    cli_properties,  \* --properties
    properties_file, \* --properties-file and what it holds
    synonyms_file,   \* --synonyms and what it holds
    opts,            \* which of -o, -f, --copy-to are given
    pc,              \* position in main() / filter_papers()
    property_terms,  \* property_terms of main() and filter_papers()
    html_files,      \* sorted(folder.glob("*.html"))
    idx,             \* loop index i, from 1
    passing,         \* list of paths
    failing,         \* list of (path, reason)
    parsed,          \* the files handed to the parser so far
    output_file,     \* the passing-list file on disk
    failures_file,   \* the failing-list file on disk
    copied,          \* the files copied to --copy-to
    exit_code,       \* the exit status of the process, once it has ended
    raised           \* the uncaught exception that ended the process, or ""

expand_vars == <<synonyms_data, requested, search_terms, re_expanded, expand_pc>>
detect_vars == <<tokens, detect_terms, qualifies, detect_pc>>
segment_vars == <<pieces, sentences, segment_pc>>
input_vars == <<folder_exists, corpus, cli_properties, properties_file, synonyms_file, opts>>
run_vars == <<pc, property_terms, html_files, idx, passing, failing, parsed,
              output_file, failures_file, copied, exit_code, raised>>
vars == <<expand_vars, detect_vars, segment_vars, input_vars, run_vars>>

-----------------------------------------------------------------------------
(* Python str *)

\* a list given by index, written out
Explicit(f, n) == SubSeq(f, 1, n)

Chars(s) == Explicit([i \in 1..Len(s) |-> SubSeq(s, i, i)], Len(s))

ASCII_UPPER == Chars("ABCDEFGHIJKLMNOPQRSTUVWXYZ")
ASCII_LOWER == Chars("abcdefghijklmnopqrstuvwxyz")
UPPER == {ASCII_UPPER[i] : i \in DOMAIN ASCII_UPPER}
LOWER == {ASCII_LOWER[i] : i \in DOMAIN ASCII_LOWER}
DIGITS == {"0", "1", "2", "3", "4", "5", "6", "7", "8", "9"}
WHITESPACE == {" ", "\t", "\n"}
\* \w of the re module
WORD_CHARS == UPPER \cup LOWER \cup DIGITS \cup {"_"}

RECURSIVE LowerTable(_)
LowerTable(i) ==
    IF i = Len(ASCII_UPPER) THEN ASCII_UPPER[i] :> ASCII_LOWER[i]
    ELSE (ASCII_UPPER[i] :> ASCII_LOWER[i]) @@ LowerTable(i + 1)
LOWER_OF == LowerTable(1)

IsUpper(c) == c \in UPPER
IsDigit(c) == c \in DIGITS
IsSpace(c) == c \in WHITESPACE
IsWordChar(c) == c \in WORD_CHARS

LowerChar(c) == IF c \in UPPER THEN LOWER_OF[c] ELSE c

\* str.lower()
Lower(s) == Explicit([i \in DOMAIN s |-> LowerChar(s[i])], Len(s))

SetMin(S) == CHOOSE x \in S : \A y \in S : x <= y
SetMax(S) == CHOOSE x \in S : \A y \in S : y <= x

\* str.strip()
Strip(s) ==
    LET keep == {i \in DOMAIN s : ~IsSpace(s[i])}
    IN  IF keep = {} THEN <<>> ELSE SubSeq(s, SetMin(keep), SetMax(keep))

-----------------------------------------------------------------------------
(* Python dict, insertion ordered: a sequence of <<key, value>> pairs with *)
(* distinct keys.                                                          *)

DictHas(d, k) == \E i \in DOMAIN d : d[i][1] = k
DictGet(d, k) == d[CHOOSE i \in DOMAIN d : d[i][1] = k][2]
\* d[k] = v: an existing key keeps its place, a new key goes last
DictSet(d, k, v) ==
    IF DictHas(d, k)
    THEN [i \in DOMAIN d |-> IF d[i][1] = k THEN <<k, v>> ELSE d[i]]
    ELSE Append(d, <<k, v>>)

-----------------------------------------------------------------------------
(* JSON values of the synonym file.  A category is                         *)
(* [key, isDict, entries]; an entry is <<canonical, syn_list>>; a syn_list *)
(* is [isList, items]; an item is [isStr, s].                              *)

Str(s) == [isStr |-> TRUE, s |-> Chars(s)]
NotStr == [isStr |-> FALSE, s |-> <<>>]
List(items) == [isList |-> TRUE, items |-> items]
NotList == [isList |-> FALSE, items |-> <<>>]

\* [s for s in syn_list if isinstance(s, str)]
RECURSIVE StrItems(_)
StrItems(items) ==
    IF items = <<>> THEN <<>>
    ELSE IF Head(items).isStr
         THEN <<Head(items).s>> \o StrItems(Tail(items))
         ELSE StrItems(Tail(items))

\* faulty variant: a canonical seen again has the new list appended to the
\* list it already has
RECURSIVE FlattenEntriesMerge(_, _)
FlattenEntriesMerge(entries, all_mappings) ==
    IF entries = <<>> THEN all_mappings
    ELSE LET canonical == Head(entries)[1]
             syn_list == Head(entries)[2]
         IN  FlattenEntriesMerge(Tail(entries),
                 IF syn_list.isList
                 THEN DictSet(all_mappings, canonical,
                          (IF DictHas(all_mappings, canonical)
                           THEN DictGet(all_mappings, canonical) ELSE <<>>)
                          \o StrItems(syn_list.items))
                 ELSE all_mappings)

\* inner loop of the flattening: one category's mappings
RECURSIVE FlattenEntries(_, _)
FlattenEntries(entries, all_mappings) ==
    IF entries = <<>> THEN all_mappings
    ELSE LET canonical == Head(entries)[1]
             syn_list == Head(entries)[2]
         IN  FlattenEntries(Tail(entries),
                 IF syn_list.isList
                 THEN DictSet(all_mappings, canonical, StrItems(syn_list.items))
                 ELSE all_mappings)

\* all_mappings: canonical -> [synonyms], over all categories
RECURSIVE Flatten(_, _)
Flatten(data, all_mappings) ==
    IF data = <<>> THEN all_mappings
    ELSE Flatten(Tail(data),
             IF Head(data).isDict
             THEN FlattenEntries(Head(data).entries, all_mappings)
             ELSE all_mappings)

AllMappings(data) == Flatten(data, <<>>)

\* faulty variant: the last canonical to list a synonym takes it over
RECURSIVE IndexSynsLastWins(_, _, _)
IndexSynsLastWins(syns, canonical, t2c) ==
    IF syns = <<>> THEN t2c
    ELSE IndexSynsLastWins(Tail(syns), canonical,
             DictSet(t2c, Lower(Head(syns)), canonical))

\* for s in syns: first owner of s.lower() keeps it
RECURSIVE IndexSyns(_, _, _)
IndexSyns(syns, canonical, t2c) ==
    IF syns = <<>> THEN t2c
    ELSE LET sl == Lower(Head(syns))
         IN  IndexSyns(Tail(syns), canonical,
                 IF ~DictHas(t2c, sl) THEN DictSet(t2c, sl, canonical) ELSE t2c)

IndexCanonical(canonical, t2c) ==
    IF ~DictHas(t2c, Lower(canonical))
    THEN DictSet(t2c, Lower(canonical), canonical)
    ELSE t2c

\* term_to_canonical: lowercase term -> canonical
RECURSIVE BuildIndex(_, _)
BuildIndex(mappings, t2c) ==
    IF mappings = <<>> THEN t2c
    ELSE LET canonical == Head(mappings)[1]
             syns == Head(mappings)[2]
         IN  BuildIndex(Tail(mappings),
                 IndexSyns(syns, canonical, IndexCanonical(canonical, t2c)))

TermToCanonical(data) == BuildIndex(AllMappings(data), <<>>)

SeqToSet(s) == {s[i] : i \in DOMAIN s}

\* faulty variant: the requested terms are trimmed but not lowercased
RECURSIVE RequestedStripOnly(_)
RequestedStripOnly(req) ==
    IF req = <<>> THEN <<>>
    ELSE IF Strip(Head(req)) # <<>>
         THEN <<Strip(Head(req))>> \o RequestedStripOnly(Tail(req))
         ELSE RequestedStripOnly(Tail(req))

\* requested_lower = [r.strip().lower() for r in requested if r.strip()]
RECURSIVE RequestedLower(_)
RequestedLower(req) ==
    IF req = <<>> THEN <<>>
    ELSE IF Strip(Head(req)) # <<>>
         THEN <<Lower(Strip(Head(req)))>> \o RequestedLower(Tail(req))
         ELSE RequestedLower(Tail(req))

\* the truth value Python gives term_to_canonical.get(req)
Truthy(t2c, req) == DictHas(t2c, req) /\ DictGet(t2c, req) # <<>>

\* faulty variant: the group is the synonym list alone, the canonical is left out
GroupSynonymsOnly(all_mappings, canonical) ==
    IF DictHas(all_mappings, canonical)
    THEN SeqToSet(DictGet(all_mappings, canonical))
    ELSE {}

\* {canonical} | set(all_mappings.get(canonical, []))
Group(all_mappings, canonical) ==
    {canonical} \cup
        (IF DictHas(all_mappings, canonical)
         THEN SeqToSet(DictGet(all_mappings, canonical))
         ELSE {})

\* faulty variant: a resolved term contributes its canonical only
ExpandOneCanonicalOnly(req, all_mappings, t2c) ==
    IF Truthy(t2c, req) THEN {DictGet(t2c, req)} ELSE {req}

\* one iteration of "for req in requested_lower"
ExpandOne(req, all_mappings, t2c) ==
    IF Truthy(t2c, req)
    THEN Group(all_mappings, DictGet(t2c, req))
    ELSE {req}

RECURSIVE ExpandLoop(_, _, _, _)
ExpandLoop(reqs, all_mappings, t2c, acc) ==
    IF reqs = <<>> THEN acc
    ELSE ExpandLoop(Tail(reqs), all_mappings, t2c,
             acc \cup ExpandOne(Head(reqs), all_mappings, t2c))

\* _build_property_search_terms(requested, synonyms_data)
BuildPropertySearchTerms(req, data) ==
    ExpandLoop(RequestedLower(req), AllMappings(data), TermToCanonical(data), {})

-----------------------------------------------------------------------------
(* Regular expressions of the filter, as searches over character lists.    *)
(* A position p in 1..Len(s)+1 is the gap before character p.              *)

Positions(s) == 1..(Len(s) + 1)

WordAt(s, i) == i \in DOMAIN s /\ IsWordChar(s[i])

\* \b at position p
Boundary(s, p) == WordAt(s, p - 1) # WordAt(s, p)

\* the literal t matches s at position p
LiteralAt(s, p, t) ==
    /\ p + Len(t) - 1 <= Len(s)
    /\ \A k \in DOMAIN t : s[p + k - 1] = t[k]

\* the positions after a match of \s* that starts at p
AfterSpaces(s, p) == {q \in p..(Len(s) + 1) : \A k \in p..(q - 1) : IsSpace(s[k])}

\* the positions after a match of \d+ that starts at p
AfterDigits(s, p) ==
    {q \in (p + 1)..(Len(s) + 1) : \A k \in p..(q - 1) : IsDigit(s[k])}

\* the positions after a match of \d+(\.\d+)? that starts at p
AfterNumber(s, p) ==
    AfterDigits(s, p) \cup
        UNION { IF q <= Len(s) /\ s[q] = "." THEN AfterDigits(s, q + 1) ELSE {} :
                q \in AfterDigits(s, p) }

\* the units of NUM_UNIT, lowercased for (?i); Pa\s*s is PaLead \s* PaTail
UNITS ==
    { Chars("°c"), Chars("k"), Chars("gpa"), Chars("mpa"), Chars("kda"), Chars("da"),
      Chars("kg/mol"), Chars("g/mol"), Chars("pa·s"), Chars("wt%"), Chars("mol%") }
PaLead == Chars("pa")
PaTail == Chars("s")

\* the positions after a match of the unit alternation that starts at p
\* (sl is s lowercased)
AfterUnit(s, sl, p) ==
    {p + Len(u) : u \in {v \in UNITS : LiteralAt(sl, p, v)}} \cup
    (IF LiteralAt(sl, p, PaLead)
     THEN {q + Len(PaTail) :
             q \in {r \in AfterSpaces(s, p + Len(PaLead)) : LiteralAt(sl, r, PaTail)}}
     ELSE {})

\* bool(NUM_UNIT.search(sentence))
NumUnitSearch(s) ==
    LET sl == Lower(s)
    IN  \E p \in Positions(s) :
            /\ Boundary(s, p)
            /\ \E q \in AfterNumber(s, p) :
                 \E r \in AfterSpaces(s, q) :
                    \E e \in AfterUnit(s, sl, r) : Boundary(s, e)

\* bool(NUM_ONLY.search(sentence))
NumOnlySearch(s) ==
    \E p \in Positions(s) :
        Boundary(s, p) /\ \E q \in AfterNumber(s, p) : Boundary(s, q)

\* re.search(r"\b" + re.escape(term.lower()) + r"\b", s_lower)
WholeWordSearch(s_lower, term) ==
    LET t == Lower(term)
    IN  \E p \in Positions(s_lower) :
            /\ LiteralAt(s_lower, p, t)
            /\ Boundary(s_lower, p)
            /\ Boundary(s_lower, p + Len(t))

\* _find_whole_word(sentence, terms): the terms that hit
FindWholeWord(sentence, terms) ==
    LET s_lower == Lower(sentence)
    IN  {t \in terms : WholeWordSearch(s_lower, t)}

POLYMER_TERMS ==
    { Chars("polymer"), Chars("polymers"), Chars("macromolecule"),
      Chars("macromolecules"), Chars("copolymer"), Chars("copolymers"),
      Chars("homopolymer"), Chars("homopolymers"), Chars("oligomer"),
      Chars("oligomers") }

POLY_CLASSES ==
    { Chars("polyvinyl"), Chars("polystyrene"), Chars("polyethylene"),
      Chars("polypropylene"), Chars("polyester"), Chars("polyamide"),
      Chars("polyether"), Chars("polyurethane"), Chars("polyimide"),
      Chars("polysaccharide") }

POLY == Chars("poly")

\* \bpoly\s*\(\s*([^)]+)\) with re.I matches at p (sl is s lowercased)
PolyParenAt(s, sl, p) ==
    /\ LiteralAt(sl, p, POLY)
    /\ Boundary(s, p)
    /\ \E q \in AfterSpaces(s, p + Len(POLY)) :
          /\ q <= Len(s) /\ s[q] = "("
          /\ \E e \in (q + 2)..Len(s) :
                s[e] = ")" /\ \A k \in (q + 1)..(e - 1) : s[k] # ")"

\* \b(poly(?:vinyl|...))\b with re.I matches at p (sl is s lowercased)
PolyClassAt(s, sl, p) ==
    /\ LiteralAt(sl, p, POLY)
    /\ Boundary(s, p)
    /\ \E c \in POLY_CLASSES : LiteralAt(sl, p, c) /\ Boundary(s, p + Len(c))

\* _regex_poly_patterns(sentence): where the two patterns hit (the caller
\* reads only whether there is a hit)
RegexPolyPatterns(sentence) ==
    LET sl == Lower(sentence)
    IN  {<<"poly()", p>> : p \in {q \in Positions(sentence) : PolyParenAt(sentence, sl, q)}} \cup
        {<<"class", p>> : p \in {q \in Positions(sentence) : PolyClassAt(sentence, sl, q)}}

\* polys of _has_valid_triple
Polys(sentence) ==
    {<<"term", t>> : t \in FindWholeWord(sentence, POLYMER_TERMS)} \cup
        RegexPolyPatterns(sentence)

HasNum(sentence) == NumUnitSearch(sentence) \/ NumOnlySearch(sentence)

\* faulty variant: the numeric value is not required
HasValidTripleNoValue(sentence, prop_terms) ==
    IF Polys(sentence) = {} THEN FALSE
    ELSE IF FindWholeWord(sentence, prop_terms) = {} THEN FALSE
    ELSE TRUE

\* _has_valid_triple(sentence, property_terms)
HasValidTriple(sentence, prop_terms) ==
    IF Polys(sentence) = {} THEN FALSE
    ELSE IF FindWholeWord(sentence, prop_terms) = {} THEN FALSE
    ELSE IF ~HasNum(sentence) THEN FALSE
    ELSE TRUE

Indices(s) == [i \in DOMAIN s |-> i]

\* re.sub(r"\s+", " ", text): of each whitespace run the first character
\* stays, as a space
NormalizeSpaces(text) ==
    LET keep == SelectSeq(Indices(text),
                    LAMBDA i : ~(IsSpace(text[i]) /\ i > 1 /\ IsSpace(text[i - 1])))
    IN  [k \in DOMAIN keep |-> IF IsSpace(text[keep[k]]) THEN " " ELSE text[keep[k]]]

SENTENCE_END == {".", "!", "?"}

\* (?<=[.!?])\s+(?=[A-Z]) matches the single space at i of normalized text
SplitAt(text, i) ==
    /\ IsSpace(text[i])
    /\ i > 1 /\ text[i - 1] \in SENTENCE_END
    /\ i < Len(text) /\ IsUpper(text[i + 1])

\* re.split(r"(?<=[.!?])\s+(?=[A-Z])", text): the pieces between the matches
SplitParts(text) ==
    LET cuts == SelectSeq(Indices(text), LAMBDA i : SplitAt(text, i))
    IN  [k \in 1..(Len(cuts) + 1) |->
            SubSeq(text,
                   IF k = 1 THEN 1 ELSE cuts[k - 1] + 1,
                   IF k = Len(cuts) + 1 THEN Len(text) ELSE cuts[k] - 1)]

MinSentenceLen == 15

\* faulty variant: a part of exactly the minimum length is kept
KeepLongInclusive(parts) ==
    SelectSeq([k \in DOMAIN parts |-> Strip(parts[k])],
              LAMBDA p : Len(p) >= MinSentenceLen)

\* [p.strip() for p in parts if len(p.strip()) > 15]
KeepLong(parts) ==
    SelectSeq([k \in DOMAIN parts |-> Strip(parts[k])],
              LAMBDA p : Len(p) > MinSentenceLen)

\* _split_into_sentences(text)
SplitIntoSentences(text) ==
    IF text = <<>> THEN <<>>
    ELSE KeepLong(SplitParts(NormalizeSpaces(text)))

-----------------------------------------------------------------------------
(* The corpus filter *)

\* " ".join(parts)
RECURSIVE JoinSpace(_)
JoinSpace(parts) ==
    IF parts = <<>> THEN <<>>
    ELSE IF Len(parts) = 1 THEN Head(parts)
         ELSE Head(parts) \o <<" ">> \o JoinSpace(Tail(parts))

\* _build_full_text(meta, sections, tables): the title, the non-blank section
\* texts, the non-blank table contents stripped
BuildFullText(meta, sections, tables) ==
    LET sec == SelectSeq([k \in DOMAIN sections |-> sections[k][2]],
                         LAMBDA t : t # <<>> /\ Strip(t) # <<>>)
        tab == SelectSeq([k \in DOMAIN tables |-> Strip(tables[k].content)],
                         LAMBDA c : c # <<>>)
    IN  JoinSpace(<<meta.title>> \o sec \o tab)

NO_TRIPLES == <<"no matching (polymer, property, value) triples", "">>
FOUND_TRIPLE == <<"found (polymer, property, value) triple", "">>
ParseError(msg) == <<"parse error: ", msg>>

\* faulty variant: only the first sentence is looked at
FirstSentenceOnly(sents, prop_terms) ==
    IF sents = <<>> THEN <<FALSE, NO_TRIPLES>>
    ELSE IF HasValidTriple(Head(sents), prop_terms) THEN <<TRUE, FOUND_TRIPLE>>
         ELSE <<FALSE, NO_TRIPLES>>

\* the loop of is_paper_with_property_triples over the sentences
RECURSIVE ScanSentences(_, _)
ScanSentences(sents, prop_terms) ==
    IF sents = <<>> THEN <<FALSE, NO_TRIPLES>>
    ELSE IF HasValidTriple(Head(sents), prop_terms) THEN <<TRUE, FOUND_TRIPLE>>
         ELSE ScanSentences(Tail(sents), prop_terms)

\* is_paper_with_property_triples(full_text, property_terms)
IsPaperWithPropertyTriples(full_text, prop_terms) ==
    ScanSentences(SplitIntoSentences(full_text), prop_terms)

\* code points order the characters of a file name
CODE_ORDER == Chars(".0123456789ABCDEFGHIJKLMNOPQRSTUVWXYZ_abcdefghijklmnopqrstuvwxyz")
Code(c) == CHOOSE i \in DOMAIN CODE_ORDER : CODE_ORDER[i] = c

\* a < b for paths of one folder
RECURSIVE PathLess(_, _)
PathLess(a, b) ==
    IF b = <<>> THEN FALSE
    ELSE IF a = <<>> THEN TRUE
    ELSE IF Head(a) # Head(b) THEN Code(Head(a)) < Code(Head(b))
    ELSE PathLess(Tail(a), Tail(b))

HTML_SUFFIX == Chars(".html")

\* folder.glob("*.html")
GlobHtml(folder) ==
    {n \in DOMAIN folder :
        Len(n) >= Len(HTML_SUFFIX) /\ LiteralAt(n, Len(n) - Len(HTML_SUFFIX) + 1, HTML_SUFFIX)}

\* faulty variant: the files in descending order
RECURSIVE SortedDescending(_)
SortedDescending(paths) ==
    IF paths = {} THEN <<>>
    ELSE LET last == CHOOSE x \in paths : \A y \in paths \ {x} : PathLess(y, x)
         IN  <<last>> \o SortedDescending(paths \ {last})

\* sorted(paths)
RECURSIVE Sorted(_)
Sorted(paths) ==
    IF paths = {} THEN <<>>
    ELSE LET first == CHOOSE x \in paths : \A y \in paths \ {x} : PathLess(x, y)
         IN  <<first>> \o Sorted(paths \ {first})

\* _load_polymer_synonyms(path): [raises, data]
LoadPolymerSynonyms(file) ==
    IF file.kind = "missing" THEN [raises |-> FALSE, data |-> <<>>]
    ELSE IF file.kind = "malformed" THEN [raises |-> TRUE, data |-> <<>>]
    ELSE [raises |-> FALSE,
          data |-> SelectSeq(file.data,
                       LAMBDA c : c.isDict /\ c.key # <<>> /\ Head(c.key) = "_")]

\* {t.lower() for t in property_terms if t.strip()}
FallbackTerms(terms) ==
    {Lower(terms[i]) : i \in {j \in DOMAIN terms : Strip(terms[j]) # <<>>}}

\* search_terms of filter_papers, lines 191-194
SearchTerms(terms, data) ==
    LET expanded == BuildPropertySearchTerms(terms, data)
    IN  IF expanded = {} THEN FallbackTerms(terms) ELSE expanded

\* faulty variant: a parse error ends the loop
BreakOnParseError(i, n) == n + 1

\* the loop index after a parse error: continue
AfterParseError(i, n) == i + 1

\* faulty variant: the empty corpus leaves the passing-list file alone
EmptyCorpusNoOutput(given, file) == file

\* the passing-list file after the "no HTML files" branch
EmptyCorpusOutput(given, file) ==
    IF given THEN [exists |-> TRUE, lines |-> <<>>] ELSE file

-----------------------------------------------------------------------------
(* Inputs of the expander: synonym graphs and requested term lists.        *)

MaxEntries == 2   \* canonical entries in a synonym graph, over all categories
MaxReq == 2       \* requested property terms

\* canonical entries of a synonym file: mixed case, a synonym shared by two
\* canonicals, a synonym that is another canonical's lowercase form, a
\* non-string synonym, a non-list value, an empty canonical
EntryPool ==
    { <<Chars("Tg"), List(<<Str("Glass"), Str("tg")>>)>>,
      <<Chars("Tg"), List(<<>>)>>,
      <<Chars("Tg"), NotList>>,
      <<Chars("TGA"), List(<<Str("tg")>>)>>,
      <<Chars("TGA"), List(<<Str("tga"), NotStr, Str("Glass")>>)>>,
      <<Chars("Mw "), List(<<Str("TGA")>>)>>,
      <<<<>>, List(<<Str("tg")>>)>> }
RequestPool == {Chars(" TG"), Chars("tga"), Chars("glass"), Chars("  ")}

SeqsUpTo(S, n) == UNION {[1..k -> S] : k \in 0..n}

\* a JSON object has distinct keys
DistinctKeys(entries) ==
    \A i, j \in DOMAIN entries : i # j => entries[i][1] # entries[j][1]

Category(n, entries) ==
    [key |-> <<"_", "c", ToString(n)>>, isDict |-> TRUE, entries |-> entries]

\* the entries es cut into categories: a new category starts after entry i
\* when cuts[i]
RECURSIVE Split(_, _, _, _)
Split(es, cuts, i, cats) ==
    IF i > Len(es) THEN cats
    ELSE IF i = 1 \/ cuts[i - 1]
         THEN Split(es, cuts, i + 1, Append(cats, <<es[i]>>))
         ELSE Split(es, cuts, i + 1,
                  [cats EXCEPT ![Len(cats)] = Append(cats[Len(cats)], es[i])])

\* graphs of at most MaxEntries entries, in one or more categories
Graphs ==
    LET shapes == UNION { {Split(es, cuts, 1, <<>>) : cuts \in [1..(Len(es) - 1) -> BOOLEAN]} :
                          es \in SeqsUpTo(EntryPool, MaxEntries) }
    IN  { [i \in DOMAIN sh |-> Category(i, sh[i])] :
            sh \in {x \in shapes : \A i \in DOMAIN x : DistinctKeys(x[i])} }

RequestLists == SeqsUpTo(RequestPool, MaxReq)

\* the members of a set as a list, in one iteration order
RECURSIVE SetToSeq(_)
SetToSeq(S) ==
    IF S = {} THEN <<>>
    ELSE LET x == CHOOSE x \in S : TRUE IN <<x>> \o SetToSeq(S \ {x})

-----------------------------------------------------------------------------
(* Expander harness: expand(R, G), then expand the result again.           *)

ExpandIdle ==
    /\ synonyms_data = <<>>
    /\ requested = <<>>
    /\ search_terms = {}
    /\ re_expanded = {}
    /\ expand_pc = "idle"

DetectIdle ==
    /\ tokens = <<>>
    /\ detect_terms = {}
    /\ qualifies = FALSE
    /\ detect_pc = "idle"

SegmentIdle ==
    /\ pieces = <<>>
    /\ sentences = <<>>
    /\ segment_pc = "idle"

NoFile == [exists |-> FALSE, lines |-> <<>>]

RunIdle ==
    /\ folder_exists = FALSE
    /\ corpus = <<>>
    /\ cli_properties = <<>>
    /\ properties_file = [kind |-> "none", terms |-> <<>>]
    /\ synonyms_file = [kind |-> "missing", data |-> <<>>]
    /\ opts = [output |-> FALSE, failures |-> FALSE, copy_to |-> FALSE]
    /\ pc = "idle"
    /\ property_terms = <<>>
    /\ html_files = <<>>
    /\ idx = 1
    /\ passing = <<>>
    /\ failing = <<>>
    /\ parsed = <<>>
    /\ output_file = NoFile
    /\ failures_file = NoFile
    /\ copied = <<>>
    /\ exit_code = 0
    /\ raised = ""

InitExpand ==
    /\ DetectIdle
    /\ SegmentIdle
    /\ RunIdle
    /\ synonyms_data \in Graphs
    /\ requested \in RequestLists
    /\ search_terms = {}
    /\ re_expanded = {}
    /\ expand_pc = "input"

Expand ==
    /\ expand_pc = "input"
    /\ search_terms' = BuildPropertySearchTerms(requested, synonyms_data)
    /\ expand_pc' = "expanded"
    /\ UNCHANGED <<synonyms_data, requested, re_expanded, detect_vars, input_vars, segment_vars, run_vars>>

ReExpand ==
    /\ expand_pc = "expanded"
    /\ re_expanded' = BuildPropertySearchTerms(SetToSeq(search_terms), synonyms_data)
    /\ expand_pc' = "reexpanded"
    /\ UNCHANGED <<synonyms_data, requested, search_terms, detect_vars, input_vars, segment_vars, run_vars>>

NextExpand == Expand \/ ReExpand

SpecExpand == InitExpand /\ [][NextExpand]_vars

-----------------------------------------------------------------------------
(* Detector harness: a sentence is put together from pieces, then          *)
(* _has_valid_triple is applied to it.                                     *)

MaxTokens == 3   \* pieces in a sentence

\* pieces with and without a word boundary at their end, so that each signal
\* occurs alone, with the others, and as a near miss inside a longer word
TokenPool ==
    { Chars("polymer "), Chars("Poly (a) "), Chars("polyester"), Chars("s "),
      Chars("Tg "), Chars("105 "), Chars("5K "), Chars("x5 ") }

TermSets ==
    { {}, {Chars("Tg")}, {Chars("glass transition"), Chars("x5")} }

RECURSIVE Concat(_)
Concat(ts) == IF ts = <<>> THEN <<>> ELSE Head(ts) \o Concat(Tail(ts))

Sentence == Concat(tokens)

InitDetect ==
    /\ ExpandIdle
    /\ SegmentIdle
    /\ RunIdle
    /\ tokens = <<>>
    /\ detect_terms \in TermSets
    /\ qualifies = FALSE
    /\ detect_pc = "build"

AppendToken ==
    /\ detect_pc = "build"
    /\ Len(tokens) < MaxTokens
    /\ \E t \in TokenPool : tokens' = Append(tokens, t)
    /\ UNCHANGED <<detect_terms, qualifies, detect_pc, expand_vars, input_vars, segment_vars, run_vars>>

Detect ==
    /\ detect_pc = "build"
    /\ qualifies' = HasValidTriple(Sentence, detect_terms)
    /\ detect_pc' = "done"
    /\ UNCHANGED <<tokens, detect_terms, expand_vars, input_vars, segment_vars, run_vars>>

NextDetect == AppendToken \/ Detect

SpecDetect == InitDetect /\ [][NextDetect]_vars

-----------------------------------------------------------------------------
(* Segmenter harness: a text is put together from pieces, then             *)
(* _split_into_sentences is applied to it.                                 *)

MaxPieces == 3   \* pieces in a text

\* pieces that give parts of 15 and of 16 characters, sentence ends before
\* an uppercase and before a lowercase letter, and whitespace runs
PiecePool ==
    { Chars("Polymer films A"), Chars("b"), Chars(". "),
      Chars("Tg is 105 K at rest? "), Chars(" \n"), Chars("then cooled! ") }

Text == Concat(pieces)

InitSegment ==
    /\ ExpandIdle
    /\ DetectIdle
    /\ RunIdle
    /\ pieces = <<>>
    /\ sentences = <<>>
    /\ segment_pc = "build"

AppendPiece ==
    /\ segment_pc = "build"
    /\ Len(pieces) < MaxPieces
    /\ \E t \in PiecePool : pieces' = Append(pieces, t)
    /\ UNCHANGED <<sentences, segment_pc, expand_vars, detect_vars, input_vars, run_vars>>

Segment ==
    /\ segment_pc = "build"
    /\ sentences' = SplitIntoSentences(Text)
    /\ segment_pc' = "done"
    /\ UNCHANGED <<pieces, expand_vars, detect_vars, input_vars, run_vars>>

NextSegment == AppendPiece \/ Segment

SpecSegment == InitSegment /\ [][NextSegment]_vars

-----------------------------------------------------------------------------
(* The command line run: main() calls filter_papers().                     *)

MaxDocs == 2   \* files in the corpus folder

\* what the parser does with a file: it raises, or returns meta, sections
\* and tables
Raises(msg) == [raises |-> TRUE, msg |-> msg, meta |-> [title |-> <<>>],
                sections |-> <<>>, tables |-> <<>>]
Parsed(title, sections, tables) ==
    [raises |-> FALSE, msg |-> "", meta |-> [title |-> Chars(title)],
     sections |-> sections, tables |-> tables]

DocPool ==
    { Raises("bad html"),
      \* the triple is in the second sentence
      Parsed("Study", <<<<"results", Chars("We cast films of it. Polymer Tg was 105 K in air.")>>>>, <<>>),
      \* the three signals are spread over two sentences
      Parsed("Notes", <<<<"intro", Chars("  ")>>,
                        <<"body", Chars("The Tg was measured here. Polymer films melt at 80 K.")>>>>, <<>>),
      \* the triple is in a table, the value has a unit and no word boundary
      Parsed("", <<>>, <<[content |-> Chars(" Copolymer glass data 5K ")]>>),
      \* the triple is in a fragment too short to be a sentence
      Parsed("", <<<<"abstract", Chars("Polymer Tg 5K.")>>>>, <<>>) }

HtmlNames == {Chars("b.html"), Chars("a.html"), Chars("C.html")}
OtherNames == {Chars("n.txt")}

\* a folder: at most MaxDocs files; a file that is not HTML is never parsed
Folders ==
    UNION { [names -> DocPool] :
            names \in {ns \in SUBSET (HtmlNames \cup OtherNames) : Cardinality(ns) <= MaxDocs} }
FoldersInUse ==
    {f \in Folders : \A n \in DOMAIN f : n \in OtherNames => f[n] = Raises("bad html")}

CliPropertiesPool ==
    { <<>>, <<Chars(" TG")>>, <<Chars("glass"), Chars("  ")>> }

PropertiesFilePool ==
    { [kind |-> "none", terms |-> <<>>],
      [kind |-> "missing", terms |-> <<>>],
      [kind |-> "lines", terms |-> <<>>],
      [kind |-> "json", terms |-> <<Chars("  ")>>],
      [kind |-> "badjson", terms |-> <<>>] }

SynonymsFilePool ==
    { [kind |-> "missing", data |-> <<>>],
      [kind |-> "malformed", data |-> <<>>],
      [kind |-> "json",
       data |-> << [key |-> Chars("_thermal"), isDict |-> TRUE,
                    entries |-> << <<Chars("Tg"), List(<<Str("Glass")>>)>> >>],
                   [key |-> Chars("notes"), isDict |-> TRUE,
                    entries |-> << <<Chars("Mw"), List(<<Str("tg")>>)>> >>],
                   [key |-> Chars("_version"), isDict |-> FALSE, entries |-> <<>>] >>] }

OptsPool ==
    { [output |-> FALSE, failures |-> FALSE, copy_to |-> FALSE],
      [output |-> TRUE, failures |-> FALSE, copy_to |-> FALSE],
      [output |-> TRUE, failures |-> TRUE, copy_to |-> TRUE] }

Init ==
    /\ ExpandIdle
    /\ DetectIdle
    /\ SegmentIdle
    /\ folder_exists \in BOOLEAN
    /\ corpus \in FoldersInUse
    /\ ~folder_exists => corpus = <<>>
    /\ cli_properties \in CliPropertiesPool
    /\ properties_file \in PropertiesFilePool
    /\ synonyms_file \in SynonymsFilePool
    /\ opts \in OptsPool
    /\ pc = "main"
    /\ property_terms = <<>>
    /\ html_files = <<>>
    /\ idx = 1
    /\ passing = <<>>
    /\ failing = <<>>
    /\ parsed = <<>>
    /\ output_file = NoFile
    /\ failures_file = NoFile
    /\ copied = <<>>
    /\ exit_code = 0
    /\ raised = ""

\* property_terms of main(), lines 319-325
ReadPropertyTerms(cli, file) ==
    IF file.kind \in {"lines", "json"} THEN file.terms ELSE cli

\* main(), lines 314-329: the folder and the property terms
MainArgs ==
    /\ pc = "main"
    /\ IF ~folder_exists
       THEN pc' = "exit" /\ exit_code' = 1 /\ UNCHANGED <<property_terms, raised>>
       ELSE IF properties_file.kind = "badjson"
       THEN /\ pc' = "crashed" /\ exit_code' = 1
            /\ raised' = "JSONDecodeError in --properties-file"
            /\ UNCHANGED property_terms
       ELSE /\ property_terms' = ReadPropertyTerms(cli_properties, properties_file)
            /\ UNCHANGED raised
            /\ IF property_terms' = <<>>
               THEN pc' = "exit" /\ exit_code' = 1
               ELSE pc' = "load" /\ UNCHANGED exit_code
    /\ UNCHANGED <<html_files, idx, passing, failing, parsed, output_file,
                   failures_file, copied>>
    /\ UNCHANGED <<expand_vars, detect_vars, input_vars, segment_vars>>

\* filter_papers(), lines 190-194: the synonyms and the search terms
LoadAndExpand ==
    /\ pc = "load"
    /\ LET loaded == LoadPolymerSynonyms(synonyms_file)
       IN  IF loaded.raises
           THEN /\ pc' = "crashed" /\ exit_code' = 1
                /\ raised' = "JSONDecodeError in --synonyms"
                /\ UNCHANGED <<synonyms_data, search_terms>>
           ELSE /\ synonyms_data' = loaded.data
                /\ search_terms' = SearchTerms(property_terms, loaded.data)
                /\ pc' = "glob" /\ UNCHANGED <<exit_code, raised>>
    /\ UNCHANGED <<requested, re_expanded, expand_pc>>
    /\ UNCHANGED <<property_terms, html_files, idx, passing, failing, parsed,
                   output_file, failures_file, copied>>
    /\ UNCHANGED <<detect_vars, input_vars, segment_vars>>

\* filter_papers(), lines 199-208: the files, and the empty corpus
Glob ==
    /\ pc = "glob"
    /\ html_files' = Sorted(GlobHtml(corpus))
    /\ IF html_files' = <<>>
       THEN /\ output_file' = EmptyCorpusOutput(opts.output, output_file)
            /\ pc' = "returned"
       ELSE /\ pc' = "loop"
            /\ UNCHANGED output_file
    /\ UNCHANGED <<property_terms, idx, passing, failing, parsed, failures_file,
                   copied, exit_code, raised>>
    /\ UNCHANGED <<expand_vars, detect_vars, input_vars, segment_vars>>

\* filter_papers(), lines 210-232: one document
ProcessDocument ==
    /\ pc = "loop"
    /\ idx <= Len(html_files)
    /\ LET path == html_files[idx]
           result == corpus[path]
       IN  /\ parsed' = Append(parsed, path)
           /\ IF result.raises
              THEN /\ failing' = Append(failing, <<path, ParseError(result.msg)>>)
                   /\ idx' = AfterParseError(idx, Len(html_files))
                   /\ UNCHANGED passing
              ELSE LET full_text == BuildFullText(result.meta, result.sections, result.tables)
                       verdict == IsPaperWithPropertyTriples(full_text, search_terms)
                   IN  /\ IF verdict[1]
                          THEN passing' = Append(passing, path) /\ UNCHANGED failing
                          ELSE failing' = Append(failing, <<path, verdict[2]>>)
                                  /\ UNCHANGED passing
                       /\ idx' = idx + 1
    /\ UNCHANGED <<pc, property_terms, html_files, output_file, failures_file,
                   copied, exit_code, raised>>
    /\ UNCHANGED <<expand_vars, detect_vars, input_vars, segment_vars>>

\* filter_papers(), lines 238-264: the output files, the copies, the return
WriteOutputs ==
    /\ pc = "loop"
    /\ idx > Len(html_files)
    /\ output_file' =
          IF opts.output THEN [exists |-> TRUE, lines |-> passing] ELSE output_file
    /\ failures_file' =
          IF opts.failures THEN [exists |-> TRUE, lines |-> failing] ELSE failures_file
    /\ copied' = IF opts.copy_to THEN passing ELSE copied
    /\ pc' = "returned"
    /\ UNCHANGED <<property_terms, html_files, idx, passing, failing, parsed,
                   exit_code, raised>>
    /\ UNCHANGED <<expand_vars, detect_vars, input_vars, segment_vars>>

\* main(), lines 341-346: the list is printed and the process ends
MainExit ==
    /\ pc = "returned"
    /\ pc' = "exit"
    /\ exit_code' = 0
    /\ UNCHANGED <<property_terms, html_files, idx, passing, failing, parsed,
                   output_file, failures_file, copied, raised>>
    /\ UNCHANGED <<expand_vars, detect_vars, input_vars, segment_vars>>

Next ==
    \/ MainArgs
    \/ LoadAndExpand
    \/ Glob
    \/ ProcessDocument
    \/ WriteOutputs
    \/ MainExit

Spec == Init /\ [][Next]_vars

-----------------------------------------------------------------------------
(* Properties of the detector *)

\* the three signals of a sentence, each found on its own
PolymerSignal(s) ==
    LET sl == Lower(s)
    IN  \/ \E t \in POLYMER_TERMS : WholeWordSearch(sl, t)
        \/ \E p \in Positions(s) : PolyParenAt(s, sl, p) \/ PolyClassAt(s, sl, p)
PropertySignal(s, ts) == LET sl == Lower(s) IN \E t \in ts : WholeWordSearch(sl, t)
ValueSignal(s) == NumUnitSearch(s) \/ NumOnlySearch(s)

\* C4: the detector returns true exactly when the polymer signal, the
\* property-term signal and the numeric-value signal are all present in the
\* sentence; with any one of them absent it returns false.
C4_TripleIffAllSignals ==
    detect_pc = "done" =>
        (qualifies <=>
            (PolymerSignal(Sentence) /\ PropertySignal(Sentence, detect_terms) /\ ValueSignal(Sentence)))

\* a sentence with the polymer and property signals and no value, rejected
C4_Witness ==
    /\ detect_pc = "done"
    /\ PolymerSignal(Sentence) /\ PropertySignal(Sentence, detect_terms)
    /\ ~ValueSignal(Sentence)
    /\ ~qualifies

\* a sentence with all three signals, accepted
C4_Accepted == detect_pc = "done" /\ qualifies

-----------------------------------------------------------------------------
(* Properties of the expander *)

IsLowercase(t) == \A i \in DOMAIN t : ~IsUpper(t[i])

\* every canonical and synonym string of the flattened graph, as spelled
GraphStrings(data) ==
    UNION { {AllMappings(data)[i][1]} \cup SeqToSet(AllMappings(data)[i][2]) :
            i \in DOMAIN AllMappings(data) }

\* the requested terms that survive trimming, trimmed and lowercased
NonEmptyRequests(req) ==
    {Lower(Strip(req[i])) : i \in {j \in DOMAIN req : Strip(req[j]) # <<>>}}

C7_ReExpandNoShrink ==
    expand_pc = "reexpanded" => search_terms \subseteq re_expanded

\* a re-expansion that strictly grows a set holding a resolved group
C7_Witness ==
    /\ expand_pc = "reexpanded"
    /\ search_terms \cap GraphStrings(synonyms_data) # {}
    /\ re_expanded # search_terms

\* the entry claims the lowercase string t: as its own name or as a synonym
Claims(entry, t) ==
    Lower(entry[1]) = t \/ \E s \in SeqToSet(entry[2]) : Lower(s) = t

Claimants(am, t) == {i \in DOMAIN am : Claims(am[i], t)}

\* the first canonical, in the iteration order of the flattened graph, that
\* claims t
FirstOwner(am, t) == am[SetMin(Claimants(am, t))][1]

IndexKeys(t2c) == {t2c[i][1] : i \in DOMAIN t2c}

\* the term index has one entry per claimed lowercase string and no other
\* entry, and the entry names the first owner
IndexIsFirstOwner(data) ==
    LET am == AllMappings(data)
        t2c == TermToCanonical(data)
    IN  /\ \A i, j \in DOMAIN t2c : t2c[i][1] = t2c[j][1] => i = j
        /\ IndexKeys(t2c) = {Lower(x) : x \in GraphStrings(data)}
        /\ \A t \in IndexKeys(t2c) :
              /\ Claimants(am, t) # {}
              /\ DictGet(t2c, t) = FirstOwner(am, t)

RECURSIVE ListEntries(_)
ListEntries(data) ==
    IF data = <<>> THEN <<>>
    ELSE (IF Head(data).isDict
          THEN SelectSeq(Head(data).entries, LAMBDA e : e[2].isList)
          ELSE <<>>) \o ListEntries(Tail(data))

\* the synonym lists the file gives canonical c, one per category, in order
ListsOf(data, c) ==
    LET es == SelectSeq(ListEntries(data), LAMBDA e : e[1] = c)
    IN  [k \in DOMAIN es |-> StrItems(es[k][2].items)]

\* canonicals with a synonym list in two categories or more
Repeated(data) ==
    {c \in {ListEntries(data)[i][1] : i \in DOMAIN ListEntries(data)} :
        Len(ListsOf(data, c)) >= 2}

\* the strings of the file outside the earlier lists of c: every canonical,
\* the synonyms of the other canonicals, the last list of c
StringsElsewhere(data, c) ==
    LET es == ListEntries(data)
        L == ListsOf(data, c)
    IN  {es[i][1] : i \in DOMAIN es}
        \cup UNION {SeqToSet(StrItems(es[i][2].items)) : i \in {j \in DOMAIN es : es[j][1] # c}}
        \cup SeqToSet(L[Len(L)])

\* the synonyms found in an earlier list of c and nowhere else
OnlyEarlier(data, c) ==
    LET L == ListsOf(data, c)
    IN  UNION {SeqToSet(L[k]) : k \in 1..(Len(L) - 1)} \ StringsElsewhere(data, c)

\* C13: for a canonical with a synonym list in two categories the flattened
\* mapping holds the list of the later category alone, and the expansion of
\* a request for that canonical holds no synonym found only in the earlier
\* category's list.
C13_LaterListOverwrites ==
    \A c \in Repeated(synonyms_data) :
        LET L == ListsOf(synonyms_data, c)
        IN  /\ DictGet(AllMappings(synonyms_data), c) = L[Len(L)]
            /\ (expand_pc # "input" /\ NonEmptyRequests(requested) = {Lower(c)}) =>
                  search_terms \cap OnlyEarlier(synonyms_data, c) = {}

\* a canonical requested and expanded to its later group, its earlier list
\* holding a synonym that is nowhere else in the file
C13_Witness ==
    /\ expand_pc = "expanded"
    /\ \E c \in Repeated(synonyms_data) :
          /\ NonEmptyRequests(requested) = {Lower(c)}
          /\ OnlyEarlier(synonyms_data, c) # {}
          /\ c \in search_terms

-----------------------------------------------------------------------------
(* Properties of the segmenter *)

HasSentenceEnd(text) == \E i \in DOMAIN text : text[i] \in {".", "!", "?"}

\* C12: every fragment the segmenter returns is longer than 15 characters
\* after trimming; the empty text gives no fragment; a text without ".",
\* "!" and "?" gives one fragment at most.
C12_Fragments ==
    segment_pc = "done" =>
        /\ \A k \in DOMAIN sentences : Len(Strip(sentences[k])) > 15
        /\ Text = <<>> => sentences = <<>>
        /\ ~HasSentenceEnd(Text) => Len(sentences) <= 1

\* a text cut at a sentence end into a part that is kept and a part of 15
\* characters or fewer that is dropped
C12_Witness ==
    /\ segment_pc = "done"
    /\ Len(sentences) >= 1
    /\ Len(SplitParts(NormalizeSpaces(Text))) > Len(sentences)
    /\ \E k \in DOMAIN SplitParts(NormalizeSpaces(Text)) :
          Len(Strip(SplitParts(NormalizeSpaces(Text))[k])) = 15

-----------------------------------------------------------------------------
(* Properties of the corpus filter and of the command line run *)

\* filter_papers() has returned
Finished == pc = "returned"

InputDocuments == GlobHtml(corpus)

FullTextOf(n) == BuildFullText(corpus[n].meta, corpus[n].sections, corpus[n].tables)

\* some sentence of the document qualifies for the search terms
SomeSentenceQualifies(n) ==
    LET sents == SplitIntoSentences(FullTextOf(n))
    IN  \E k \in DOMAIN sents : HasValidTriple(sents[k], search_terms)

Occurrences(seq, x) == Cardinality({i \in DOMAIN seq : seq[i] = x})
FailingPaths == [i \in DOMAIN failing |-> failing[i][1]]

\* C1: once filter_papers has finished, every input document is in exactly
\* one of the passing and the failing list; a document that parsed is in
\* the passing list iff one of the sentences of its text qualifies, and is
\* otherwise in the failing list with the no-triples reason.
C1_PartitionByTriples ==
    Finished =>
        \A n \in InputDocuments :
            /\ Occurrences(passing, n) + Occurrences(FailingPaths, n) = 1
            /\ ~corpus[n].raises =>
                 IF SomeSentenceQualifies(n)
                 THEN Occurrences(passing, n) = 1
                 ELSE \E i \in DOMAIN failing : failing[i] = <<n, NO_TRIPLES>>

\* a finished run with a document that passes on a later sentence and one
\* that fails for want of a triple
C1_Witness ==
    /\ Finished
    /\ \E n \in InputDocuments :
          /\ Occurrences(passing, n) = 1
          /\ ~HasValidTriple(SplitIntoSentences(FullTextOf(n))[1], search_terms)
    /\ \E i \in DOMAIN failing : failing[i][2] = NO_TRIPLES

\* the lists filter_papers builds from the given files when none of them
\* fails to parse
ReferenceRun(files) ==
    LET pass == SelectSeq(files, LAMBDA n : SomeSentenceQualifies(n))
        fail == SelectSeq(files, LAMBDA n : \A i \in DOMAIN pass : pass[i] # n)
    IN  [passing |-> pass,
         failing |-> [k \in DOMAIN fail |-> <<fail[k], NO_TRIPLES>>]]

\* C2: a document whose parse raises is in the failing list with a
\* parse-error reason that carries the message; the batch goes on, every
\* file is handed to the parser, and the other documents get the lists they
\* would get with the raising documents absent.
C2_ParseErrorIsolated ==
    Finished =>
        LET absent == ReferenceRun(SelectSeq(html_files, LAMBDA n : ~corpus[n].raises))
        IN  /\ parsed = html_files
            /\ raised = ""
            /\ \A n \in InputDocuments :
                  corpus[n].raises =>
                      \E i \in DOMAIN failing : failing[i] = <<n, ParseError(corpus[n].msg)>>
            /\ passing = absent.passing
            /\ SelectSeq(failing, LAMBDA e : e[2][1] # ParseError("")[1]) = absent.failing

\* a finished run where a document that raises comes before one that passes
C2_Witness ==
    /\ Finished
    /\ \E i, j \in DOMAIN html_files :
          /\ i < j
          /\ corpus[html_files[i]].raises
          /\ Occurrences(passing, html_files[j]) = 1

IsSortedByName(files) ==
    \A i, j \in DOMAIN files : i < j => PathLess(files[i], files[j])

\* a is b with some members left out, the others in b's order
IsSubsequence(a, b) == a = SelectSeq(b, LAMBDA x : \E i \in DOMAIN a : a[i] = x)

\* C3: the documents are processed in sorted-by-name order, and the passing
\* list, the failing list and the two files list their documents in that
\* relative order.
C3_SortedOrderKept ==
    /\ pc \in {"loop", "returned"} \/ Finished =>
          /\ SeqToSet(html_files) = InputDocuments
          /\ IsSortedByName(html_files)
          /\ parsed = SubSeq(html_files, 1, Len(parsed))
          /\ IsSubsequence(passing, html_files)
          /\ IsSubsequence(FailingPaths, html_files)
    /\ Finished =>
          /\ output_file.exists => output_file.lines = passing
          /\ failures_file.exists => failures_file.lines = failing

\* a finished run that wrote two passing documents, the first of them with
\* an upper-case name
C3_Witness ==
    /\ Finished
    /\ output_file.exists
    /\ Len(output_file.lines) >= 2
    /\ IsUpper(output_file.lines[1][1])

\* C8 as stated: with the synonym file missing or malformed the run does
\* not end in an exception of the load, the synonym graph is empty and the
\* search terms are the trimmed lowercase non-empty requested terms.
C8_AsStated ==
    synonyms_file.kind \in {"missing", "malformed"} =>
        /\ raised # "JSONDecodeError in --synonyms"
        /\ pc \in {"glob", "loop", "returned"} \/ Finished =>
              /\ synonyms_data = <<>>
              /\ search_terms = NonEmptyRequests(property_terms)

\* the part of C8 that holds: the missing file
C8_MissingFile ==
    synonyms_file.kind = "missing" =>
        /\ raised # "JSONDecodeError in --synonyms"
        /\ pc \in {"glob", "loop", "returned"} \/ Finished =>
              /\ synonyms_data = <<>>
              /\ search_terms = NonEmptyRequests(property_terms)

NoTermsSupplied == ReadPropertyTerms(cli_properties, properties_file) = <<>>

\* C9 as stated: the process exits with 1 when the folder does not exist or
\* no property terms are supplied, before any document is parsed or any
\* output written, and with 0 in every other run.
C9_AsStated ==
    pc \in {"exit", "crashed"} =>
        IF ~folder_exists \/ NoTermsSupplied
        THEN /\ exit_code = 1
             /\ parsed = <<>>
             /\ ~output_file.exists /\ ~failures_file.exists /\ copied = <<>>
        ELSE exit_code = 0

====
